---------------------------- MODULE Spec2Model ----------------------------
(***************************************************************************)
(* Model of src/script.py: the QQQ overnight back-test (SMA20 trend filter *)
(* with SPY/XLK overnight confirmation).  The script is one straight-line  *)
(* run; pc is the position in the script, the other variables are the      *)
(* module-level names of the script.  The columns signal,                  *)
(* strategy_daily_return and strategy_equity of the `common` frame are     *)
(* variables of their own; its other columns are fields of its rows.       *)
(* Row i of the script (0-based) is position i + 1 of a sequence here.     *)
(*                                                                         *)
(* Numbers are exact rationals [n, d] with d > 0; the float NaN is the     *)
(* value with d = 0.  Every comparison with NaN is false, every sum,       *)
(* product or quotient with NaN is NaN, as in IEEE arithmetic.  Rounding   *)
(* of doubles is not modelled.                                             *)
(***************************************************************************)
EXTENDS Integers, Sequences, FiniteSets, TLC

\* ------------------------------------------------------------------------
\* Bounds of the explored inputs
\* ------------------------------------------------------------------------
MaxTail == 2

\* (open, close) of the anchor bars that follow the warm-up
BarShapes == {<<1, 1>>, <<1, 2>>, <<2, 2>>, <<3, 2>>}

\* numbers of flat warm-up bars, explored in this order
WarmLens == <<19, 1, 0>>

\* ------------------------------------------------------------------------
\* Program constants
\* ------------------------------------------------------------------------
\* pd.Timestamp("2006-01-01") on the model's integer day axis
Cutoff == 2

Window == 20

TradingDays == 252

Tickers == <<"QQQ", "SPY", "XLK">>

DefaultPath == [QQQ |-> "4 - QQQ.csv", SPY |-> "4 - SPY.csv", XLK |-> "4 - XLK.csv"]

\* ------------------------------------------------------------------------
\* Exact arithmetic with NaN
\* ------------------------------------------------------------------------
Abs(x) == IF x < 0 THEN -x ELSE x

RECURSIVE GCD(_, _)
GCD(a, b) == IF b = 0 THEN a ELSE GCD(b, a % b)

NaN == [n |-> 0, d |-> 0]

IsNaN(x) == x.d = 0

Rat(n, d) ==
    LET g == GCD(Abs(n), Abs(d))
        s == IF d < 0 THEN -1 ELSE 1
    IN  [n |-> (s * n) \div g, d |-> (s * d) \div g]

Num(k) == [n |-> k, d |-> 1]

Add(x, y) ==
    IF IsNaN(x) \/ IsNaN(y) THEN NaN
    ELSE LET g == GCD(x.d, y.d)
         IN  Rat(x.n * (y.d \div g) + y.n * (x.d \div g), (x.d \div g) * y.d)

Neg(x) == IF IsNaN(x) THEN NaN ELSE [n |-> -x.n, d |-> x.d]

Sub(x, y) == Add(x, Neg(y))

Mul(x, y) ==
    IF IsNaN(x) \/ IsNaN(y) THEN NaN
    ELSE LET g1 == GCD(Abs(x.n), y.d)
             g2 == GCD(Abs(y.n), x.d)
         IN  Rat((x.n \div g1) * (y.n \div g2), (x.d \div g2) * (y.d \div g1))

\* float division; the script never divides by zero (prices are positive and
\* both other divisions are guarded), so x / 0 is not given a value of its own
Div(x, y) ==
    IF IsNaN(x) \/ IsNaN(y) \/ y.n = 0 THEN NaN
    ELSE Mul(x, Rat(y.d, y.n))

Gt(x, y) == ~IsNaN(x) /\ ~IsNaN(y) /\ x.n * y.d > y.n * x.d

Ne(x, y) == IsNaN(x) \/ IsNaN(y) \/ x # y

\* ------------------------------------------------------------------------
\* Sequence helpers (pandas primitives)
\* ------------------------------------------------------------------------
Col(df, f) == [i \in 1..Len(df) |-> df[i][f]]

\* Series.shift(1): value of the previous position, NaN at the first
ShiftDown(s) == [i \in 1..Len(s) |-> IF i = 1 THEN NaN ELSE s[i - 1]]

\* Series.shift(-1): value of the next position, NaN at the last
ShiftUp(s) == [i \in 1..Len(s) |-> IF i = Len(s) THEN NaN ELSE s[i + 1]]

RECURSIVE SumRange(_, _, _)
SumRange(s, lo, hi) == IF lo > hi THEN Num(0) ELSE Add(s[hi], SumRange(s, lo, hi - 1))

Reverse(s) == [i \in 1..Len(s) |-> s[Len(s) + 1 - i]]

RECURSIVE Flatten(_)
Flatten(ss) == IF ss = <<>> THEN <<>> ELSE Head(ss) \o Flatten(Tail(ss))

KeepFrom(s, day) == SelectSeq(s, LAMBDA r : r.Date >= day)

Orderings(s) ==
    LET n == Len(s)
    IN  IF n <= 1 THEN {s}
        ELSE {[i \in 1..n |-> s[p[i]]] :
                p \in {q \in [1..n -> 1..n] : \A a, b \in 1..n : a # b => q[a] # q[b]}}

RECURSIVE MinOf(_)
MinOf(ds) == IF Len(ds) = 1 THEN ds[1]
             ELSE LET m == MinOf(Tail(ds)) IN IF ds[1] < m THEN ds[1] ELSE m

RECURSIVE MaxOf(_)
MaxOf(ds) == IF Len(ds) = 1 THEN ds[1]
             ELSE LET m == MaxOf(Tail(ds)) IN IF ds[1] > m THEN ds[1] ELSE m

RECURSIVE SortFrom(_, _, _)
SortFrom(s, day, last) ==
    IF day > last THEN {<<>>}
    ELSE LET grp == SelectSeq(s, LAMBDA r : r.Date = day)
         IN  {g \o t : g \in Orderings(grp), t \in SortFrom(s, day + 1, last)}

\* sort_values("Date") with the default (unstable) quicksort: ascending by
\* Date, rows of equal Date in any order
SortValues(s) ==
    IF s = <<>> THEN {<<>>}
    ELSE SortFrom(s, MinOf(Col(s, "Date")), MaxOf(Col(s, "Date")))

\* ------------------------------------------------------------------------
\* load_ticker
\* ------------------------------------------------------------------------
\* columns Next_Open and next_overnight_return added to a sorted frame
WithOvernight(df) ==
    LET nxt == ShiftUp(Col(df, "open"))
    IN  [i \in 1..Len(df) |->
            [Date |-> df[i].Date, open |-> df[i].open, close |-> df[i].close,
             Next_Open |-> nxt[i],
             next_overnight_return |-> Sub(Div(nxt[i], df[i].close), Num(1))]]

\* the frames load_ticker can return for the rows of one CSV file
load_ticker(rows) == {WithOvernight(df) : df \in SortValues(KeepFrom(rows, Cutoff))}

\* ------------------------------------------------------------------------
\* Input files explored
\* ------------------------------------------------------------------------
Bar(day, o, c) == [Date |-> day, open |-> Num(o), close |-> Num(c)]

\* a CSV file lists its bars newest first and ends with one bar from before
\* the cut-off date
AsFile(bars) == Reverse(<<Bar(Cutoff - 1, 1, 1)>> \o bars)

Flat(len) == [i \in 1..len |-> Bar(Cutoff + i - 1, 1, 1)]

Tails(len) == [1..len -> BarShapes]

AnchorBars(warm, tail) ==
    Flat(warm) \o [k \in 1..Len(tail) |-> Bar(Cutoff + warm + k - 1, tail[k][1], tail[k][2])]

\* a confirming instrument trades flat on the warm-up dates and then, date by
\* date, has no bar or a bar that opens above its close
Kinds == {"absent", "up"}

Patterns == [1..3 -> Kinds]

ConfirmBars(warm, pat) ==
    Flat(warm) \o Flatten([k \in 1..Len(pat) |->
        CASE pat[k] = "absent" -> <<>>
          [] pat[k] = "up"     -> <<Bar(Cutoff + warm + k - 1, 2, 1)>>])

\* a second bar on the date of the newest bar of the file
WithDuplicate(bars) ==
    IF bars = <<>> THEN bars
    ELSE bars \o <<Bar(bars[Len(bars)].Date, 2, 1)>>

\* ------------------------------------------------------------------------
\* State
\* ------------------------------------------------------------------------
VARIABLES
    pc,                     \* section of the script about to run
    argv,                   \* sys.argv
    fs,                     \* the file system: path -> [exists, rows]
    default_files,          \* ticker -> resolved path
    missing,                \* resolved paths that do not exist
    stdout,                 \* lines printed so far
    error,                  \* uncaught exception, "" if none
    exit_status,            \* process exit status, -1 while running
    data,                   \* ticker -> frame returned by load_ticker
    common,                 \* the merged frame
    signal,                 \* column common["signal"]
    strategy_daily_return,  \* column common["strategy_daily_return"]
    stats,                  \* excess-return statistics and Sharpe ratio
    strategy_equity,        \* column common["strategy_equity"]
    growth                  \* total_return, years_span, cagr

vars == <<pc, argv, fs, default_files, missing, stdout, error, exit_status, data,
          common, signal, strategy_daily_return, stats, strategy_equity, growth>>

Paths == {DefaultPath[t] : t \in {"QQQ", "SPY", "XLK"}} \cup {"arg1.csv", "arg2.csv", "arg3.csv"}

ArgvChoices ==
    {<<"script.py">>, <<"script.py", "arg1.csv">>, <<"script.py", "arg1.csv", "arg2.csv">>,
     <<"script.py", "arg1.csv", "arg2.csv", "arg3.csv">>}

NoFile == [exists |-> FALSE, rows |-> <<>>]

File(rows) == [exists |-> TRUE, rows |-> rows]

\* lines 35-37: positional override of the default locations, in dictionary
\* order; sys.argv[i] is argv[i + 1] here
Resolve(av) ==
    [t \in {"QQQ", "SPY", "XLK"} |->
        LET i == CHOOSE k \in 1..3 : Tickers[k] = t
        IN  IF Len(av) > i THEN av[i + 1] ELSE DefaultPath[t]]

\* line 39 with the negation lost: the resolved paths that do exist
Missing_existing(files, disk) ==
    SelectSeq([k \in 1..3 |-> files[Tickers[k]]], LAMBDA p : disk[p].exists)

\* line 39: the resolved paths, in dictionary order, that do not exist
Missing(files, disk) ==
    SelectSeq([k \in 1..3 |-> files[Tickers[k]]], LAMBDA p : ~disk[p].exists)

Disk(av, absent, q, s, x) ==
    LET res == Resolve(av)
        content == [QQQ |-> q, SPY |-> s, XLK |-> x]
    IN  [p \in Paths |->
            IF \E t \in {"QQQ", "SPY", "XLK"} : res[t] = p /\ t \notin absent
            THEN File(content[CHOOSE t \in {"QQQ", "SPY", "XLK"} : res[t] = p])
            ELSE NoFile]

XlkKinds == {"none", "flat", "up"}

XlkBars(warm, kind) ==
    CASE kind = "none" -> <<>>
      [] kind = "flat" -> Flat(warm + 3)
      [] kind = "up"   -> [i \in 1..(warm + 3) |-> Bar(Cutoff + i - 1, 2, 1)]

Init ==
    /\ pc = "io"
    /\ argv \in ArgvChoices
    /\ \E w \in DOMAIN WarmLens, short \in 0..MaxTail,
          absent \in SUBSET {"QQQ", "SPY", "XLK"},
          pat \in Patterns, kind \in XlkKinds, dup \in {"none", "QQQ", "SPY"} :
       \E warm \in {WarmLens[w]} : \E tail \in Tails(MaxTail - short) :
          /\ absent # {} => (warm = 0 /\ tail = <<>> /\ kind = "none" /\ dup = "none"
                             /\ pat = [k \in 1..3 |-> "absent"])
          /\ warm = 0 => tail = <<>>
          /\ Len(argv) > 1 => tail = <<>>
          /\ dup = "QQQ" => warm > 0
          /\ dup # "none" => kind = "flat"
          /\ LET q == AnchorBars(warm, tail)
                 s == ConfirmBars(warm, pat)
                 x == XlkBars(warm, kind)
             IN  fs = Disk(argv, absent,
                           AsFile(IF dup = "QQQ" THEN WithDuplicate(q) ELSE q),
                           AsFile(IF dup = "SPY" THEN WithDuplicate(s) ELSE s),
                           AsFile(x))
    /\ default_files = DefaultPath
    /\ missing = <<>>
    /\ stdout = <<>>
    /\ error = ""
    /\ exit_status = -1
    /\ data = [t \in {"QQQ", "SPY", "XLK"} |-> <<>>]
    /\ common = <<>>
    /\ signal = <<>>
    /\ strategy_daily_return = <<>>
    /\ stats = [computed |-> FALSE]
    /\ strategy_equity = <<>>
    /\ growth = [computed |-> FALSE]

\* lines 35-42
CheckInputs ==
    /\ pc = "io"
    /\ default_files' = Resolve(argv)
    /\ missing' = Missing(default_files', fs)
    /\ IF missing' # <<>>
       THEN /\ stdout' = Append(stdout, [label |-> "Missing file(s):", paths |-> missing'])
            /\ exit_status' = 1
            /\ pc' = "exit"
       ELSE /\ pc' = "load"
            /\ UNCHANGED <<stdout, exit_status>>
    /\ UNCHANGED <<argv, fs, error, data, common, signal, strategy_daily_return,
                   stats, strategy_equity, growth>>

\* line 44
LoadData ==
    /\ pc = "load"
    /\ \E q \in load_ticker(fs[default_files["QQQ"]].rows),
          s \in load_ticker(fs[default_files["SPY"]].rows),
          x \in load_ticker(fs[default_files["XLK"]].rows) :
          data' = [QQQ |-> q, SPY |-> s, XLK |-> x]
    /\ pc' = "merge"
    /\ UNCHANGED <<argv, fs, default_files, missing, stdout, error, exit_status,
                   common, signal, strategy_daily_return, stats, strategy_equity, growth>>

\* line 56 with min_periods=1: the mean of the rows available so far
RollingMean_min_periods(s, w) ==
    [i \in 1..Len(s) |->
        LET lo == IF i < w THEN 1 ELSE i - w + 1
        IN  Div(SumRange(s, lo, i), Num(i - lo + 1))]

\* rolling(window=w).mean(): NaN until w values are available
RollingMean(s, w) ==
    [i \in 1..Len(s) |->
        IF i < w THEN NaN ELSE Div(SumRange(s, i - w + 1, i), Num(w))]

\* DataFrame.merge(right[["Date", "next_overnight_return"]], on="Date",
\* how="left"): the left rows in order, one copy per right row of the same
\* Date, a single copy with NaN when there is none; each result row is the
\* pair of the left row l and the value v of the new column
LeftMerge(left, right) ==
    Flatten([i \in 1..Len(left) |->
        LET hit == SelectSeq(right, LAMBDA r : r.Date = left[i].Date)
        IN  IF hit = <<>> THEN <<[l |-> left[i], v |-> NaN]>>
            ELSE [k \in 1..Len(hit) |->
                    [l |-> left[i], v |-> hit[k].next_overnight_return]]])

\* lines 47-48
AnchorColumns(q) ==
    [i \in 1..Len(q) |->
        [Date |-> q[i].Date, open |-> q[i].open, close |-> q[i].close,
         QQQ_next_ov |-> q[i].next_overnight_return]]

\* line 56
WithSma(df) ==
    LET sma == RollingMean(Col(df, "close"), Window)
    IN  [i \in 1..Len(df) |->
            [Date |-> df[i].Date, open |-> df[i].open, close |-> df[i].close,
             QQQ_next_ov |-> df[i].QQQ_next_ov, sma20 |-> sma[i]]]

\* lines 58-61
WithSpy(l, v) ==
    [Date |-> l.Date, open |-> l.open, close |-> l.close,
     QQQ_next_ov |-> l.QQQ_next_ov, sma20 |-> l.sma20, SPY_next_ov |-> v]

\* lines 62-65
WithXlk(l, v) ==
    [Date |-> l.Date, open |-> l.open, close |-> l.close,
     QQQ_next_ov |-> l.QQQ_next_ov, sma20 |-> l.sma20,
     SPY_next_ov |-> l.SPY_next_ov, XLK_next_ov |-> v]

\* lines 47-65 as a function of the sorted anchor columns
Common(c, spy, xlk) ==
    LET a == LeftMerge(WithSma(c), spy)
        b == LeftMerge([i \in 1..Len(a) |-> WithSpy(a[i].l, a[i].v)], xlk)
    IN  [i \in 1..Len(b) |-> WithXlk(b[i].l, b[i].v)]

\* lines 47-65
Merge ==
    /\ pc = "merge"
    /\ \E c \in SortValues(AnchorColumns(data["QQQ"])) :
          common' = Common(c, data["SPY"], data["XLK"])
    /\ pc' = "strategy"
    /\ UNCHANGED <<argv, fs, default_files, missing, stdout, error, exit_status,
                   data, signal, strategy_daily_return, stats, strategy_equity, growth>>

\* lines 68-78
Signal(df) ==
    LET close == ShiftDown(Col(df, "close"))
        sma   == ShiftDown(Col(df, "sma20"))
        open  == ShiftDown(Col(df, "open"))
        qqq   == ShiftDown(Col(df, "QQQ_next_ov"))
        spy   == ShiftDown(Col(df, "SPY_next_ov"))
        xlk   == ShiftDown(Col(df, "XLK_next_ov"))
    IN  [i \in 1..Len(df) |->
            IF /\ Gt(close[i], sma[i])
               /\ (Gt(close[i], open[i]) \/ Gt(qqq[i], Num(0)))
               /\ (Gt(spy[i], Num(0)) \/ Gt(xlk[i], Num(0)))
            THEN 1 ELSE 0]

\* Series.fillna(0)
FillNa(s) == [i \in 1..Len(s) |-> IF IsNaN(s[i]) THEN Num(0) ELSE s[i]]

\* lines 80-81 with the signal lagged one more row
StrategyDailyReturn_lagged(df, sig) ==
    LET ov  == ShiftDown(Col(df, "QQQ_next_ov"))
        lag == [i \in 1..Len(sig) |-> IF i = 1 THEN 0 ELSE sig[i - 1]]
    IN  FillNa([i \in 1..Len(df) |-> Mul(Num(lag[i]), ov[i])])

\* lines 80-81
StrategyDailyReturn(df, sig) ==
    LET ov == ShiftDown(Col(df, "QQQ_next_ov"))
    IN  FillNa([i \in 1..Len(df) |-> Mul(Num(sig[i]), ov[i])])

\* lines 68-81
Strategy ==
    /\ pc = "strategy"
    /\ signal' = Signal(common)
    /\ strategy_daily_return' = StrategyDailyReturn(common, signal')
    /\ pc' = "performance"
    /\ UNCHANGED <<argv, fs, default_files, missing, stdout, error, exit_status,
                   data, common, stats, strategy_equity, growth>>

\* Series.mean(): NaN for an empty series
Mean(s) == IF s = <<>> THEN NaN ELSE Div(SumRange(s, 1, Len(s)), Num(Len(s)))

\* square of Series.std() (ddof = 1): NaN for fewer than two values
Variance(s) ==
    IF Len(s) < 2 THEN NaN
    ELSE LET m  == Mean(s)
             sq == [i \in 1..Len(s) |-> Mul(Sub(s[i], m), Sub(s[i], m))]
         IN  Div(SumRange(sq, 1, Len(s)), Num(Len(s) - 1))

annual_rf == Rat(2, 100)

daily_rf == Div(annual_rf, Num(TradingDays))

\* lines 87-90.  A standard deviation is kept as its square (the square root
\* is not rational); `std != 0` is decided on the square, and the quotient
\* mean / std is kept as the pair [m, sq] standing for m / sqrt(sq).  The
\* literal 0 of the else branch is the pair [0, 1].
SharpeStats(ret) ==
    LET excess_returns == [i \in 1..Len(ret) |-> Sub(ret[i], daily_rf)]
        mean_annual    == Mul(Mean(excess_returns), Num(TradingDays))
        std_annual_sq  == Mul(Variance(excess_returns), Num(TradingDays))
    IN  [computed           |-> TRUE,
         mean_excess_annual |-> mean_annual,
         std_excess_annual  |-> [sq |-> std_annual_sq],
         sharpe_ratio       |-> IF Ne(std_annual_sq, Num(0))
                                THEN [m |-> mean_annual, sq |-> std_annual_sq]
                                ELSE [m |-> Num(0), sq |-> Num(1)]]

SurdIsNaN(v) == IsNaN(v.m) \/ IsNaN(v.sq)

SurdIsZero(v) == ~SurdIsNaN(v) /\ v.m.n = 0

\* Series.cumprod()
RECURSIVE CumProd(_)
CumProd(s) ==
    IF s = <<>> THEN <<>>
    ELSE LET n == Len(s)
             p == CumProd(SubSeq(s, 1, n - 1))
         IN  Append(p, IF n = 1 THEN s[1] ELSE Mul(p[n - 1], s[n]))

\* Series.cumsum()
RECURSIVE CumSum(_)
CumSum(s) ==
    IF s = <<>> THEN <<>>
    ELSE LET n == Len(s)
             p == CumSum(SubSeq(s, 1, n - 1))
         IN  Append(p, IF n = 1 THEN s[1] ELSE Add(p[n - 1], s[n]))

\* line 92 with cumsum in place of cumprod
StrategyEquity_cumsum(ret) == CumSum([i \in 1..Len(ret) |-> Add(Num(1), ret[i])])

\* line 92
StrategyEquity(ret) == CumProd([i \in 1..Len(ret) |-> Add(Num(1), ret[i])])

\* lines 93-95.  Dates are whole days; the power is not rational and cagr is
\* kept as the pair [base, years] standing for base ^ (1 / years) - 1, the
\* literal 0 of the else branch as [1, 1].
Growth(df, equity) ==
    LET n     == Len(df)
        total == Sub(equity[n], Num(1))
        years == Rat(4 * (df[n].Date - df[1].Date), 1461)
    IN  [computed     |-> TRUE,
         total_return |-> total,
         years_span   |-> years,
         cagr         |-> IF Gt(years, Num(0))
                          THEN [base |-> Add(Num(1), total), years |-> years]
                          ELSE [base |-> Num(1), years |-> Num(1)]]

\* lines 84-95; .iloc[-1] of an empty column raises IndexError, which ends
\* the process with a traceback and status 1
Performance ==
    /\ pc = "performance"
    /\ stats' = SharpeStats(strategy_daily_return)
    /\ strategy_equity' = StrategyEquity(strategy_daily_return)
    /\ IF common = <<>>
       THEN /\ error' = "IndexError"
            /\ exit_status' = 1
            /\ pc' = "exit"
            /\ UNCHANGED growth
       ELSE /\ growth' = Growth(common, strategy_equity')
            /\ pc' = "output"
            /\ UNCHANGED <<error, exit_status>>
    /\ UNCHANGED <<argv, fs, default_files, missing, stdout, data, common, signal,
                   strategy_daily_return>>

RECURSIVE Count(_)
Count(sig) == IF sig = <<>> THEN 0 ELSE Head(sig) + Count(Tail(sig))

\* lines 98-104
Report(st, gr, df, sig) ==
    <<[label |-> "=== Strategy results (SMA20 + SPY/XLK overnight filter) ==="],
      [label |-> "Sharpe Ratio:", value |-> st.sharpe_ratio],
      [label |-> "CAGR:", value |-> gr.cagr],
      [label |-> "Days:", value |-> Len(df)],
      [label |-> "Trades:", value |-> Count(sig)]>>

Output ==
    /\ pc = "output"
    /\ stdout' = stdout \o Report(stats, growth, common, signal)
    /\ exit_status' = 0
    /\ pc' = "exit"
    /\ UNCHANGED <<argv, fs, default_files, missing, error, data, common, signal,
                   strategy_daily_return, stats, strategy_equity, growth>>

Next == CheckInputs \/ LoadData \/ Merge \/ Strategy \/ Performance \/ Output

Spec == Init /\ [][Next]_vars

\* ------------------------------------------------------------------------
\* Runs as functions of the input files (used to compare two inputs)
\* ------------------------------------------------------------------------
RunOf(c, spy, xlk) ==
    LET df  == Common(c, spy, xlk)
        sig == Signal(df)
        ret == StrategyDailyReturn(df, sig)
    IN  [common |-> df, signal |-> sig, strategy_daily_return |-> ret,
         strategy_equity |-> StrategyEquity(ret)]

\* every result lines 47-92 can produce from sets of loaded frames
RunsFrom(Q, S, X) ==
    {RunOf(c, sf, xf) : c \in UNION {SortValues(AnchorColumns(qf)) : qf \in Q},
                        sf \in S, xf \in X}

\* every signal column lines 47-78 can produce from sets of loaded frames
SignalsFrom(Q, S, X) ==
    {Signal(Common(c, sf, xf)) : c \in UNION {SortValues(AnchorColumns(qf)) : qf \in Q},
                                 sf \in S, xf \in X}

InputRows(t) == fs[default_files[t]].rows

\* the columns of the strategy section are present
StrategyDone == pc \in {"performance", "output"} \/ (pc = "exit" /\ missing = <<>>)

\* the whole script ran and printed its report
Reported == pc = "exit" /\ exit_status = 0

TickerSet == {"QQQ", "SPY", "XLK"}

DuplicateDates(rows) ==
    \E a, b \in 1..Len(rows) : a # b /\ rows[a].Date = rows[b].Date /\ rows[a].Date >= Cutoff

NoDuplicateDates == \A t \in TickerSet : ~DuplicateDates(InputRows(t))

EditPrices == {1, 2, 3}

\* ------------------------------------------------------------------------
\* C1
\* ------------------------------------------------------------------------
\* mean of close over the Window rows of the table ending at position j
TrailingMean(df, j) ==
    IF j < Window THEN NaN ELSE Div(SumRange(Col(df, "close"), j - Window + 1, j), Num(Window))

\* open[j] / close[j - 1] - 1, the overnight return into row j
OvernightIntoToday(df, j) ==
    IF j < 2 THEN NaN ELSE Sub(Div(df[j].open, df[j - 1].close), Num(1))

SignalAsSpecified(df, i) ==
    /\ i >= 2
    /\ Gt(df[i - 1].close, TrailingMean(df, i - 1))
    /\ (Gt(df[i - 1].close, df[i - 1].open) \/ Gt(OvernightIntoToday(df, i - 1), Num(0)))
    /\ (Gt(df[i - 1].SPY_next_ov, Num(0)) \/ Gt(df[i - 1].XLK_next_ov, Num(0)))

\* C1: for every row i of the Common Table, signal[i] is true iff the
\* previous row's close exceeds the 20-row trailing mean of close ending at
\* the previous row, and the previous row closed above its open or its
\* overnight return into today (open[i-1] / close[i-2] - 1) was positive, and
\* a confirming instrument's overnight return into tomorrow at the previous
\* row was positive; comparisons with an absent operand are false (stated
\* for inputs without duplicate dates).
C1_SignalDefinition ==
    (StrategyDone /\ NoDuplicateDates) =>
        \A i \in 1..Len(common) : (signal[i] = 1) <=> SignalAsSpecified(common, i)

\* ------------------------------------------------------------------------
\* C2
\* ------------------------------------------------------------------------
\* the rows of a file with one price of every bar dated day replaced
Repriced(rows, day, field, v) ==
    [k \in 1..Len(rows) |->
        IF rows[k].Date = day THEN [rows[k] EXCEPT ![field] = Num(v)] ELSE rows[k]]

HasBar(rows, day) == \E k \in 1..Len(rows) : rows[k].Date = day

\* C2: no lookahead.  For every row i, changing the open or close of the bar
\* of row i's own date, in any one instrument, leaves signal[i] as it is
\* (stated for inputs without duplicate dates, where the run is unique).
C2_NoLookahead ==
    (StrategyDone /\ NoDuplicateDates) =>
        LET Q == load_ticker(InputRows("QQQ"))
            S == load_ticker(InputRows("SPY"))
            X == load_ticker(InputRows("XLK"))
        IN  \A i \in 1..Len(common) : \A t \in TickerSet :
                HasBar(InputRows(t), common[i].Date) =>
                    \A field \in {"open", "close"}, v \in EditPrices :
                        LET alt == load_ticker(Repriced(InputRows(t), common[i].Date, field, v))
                        IN  \E sig \in SignalsFrom(IF t = "QQQ" THEN alt ELSE Q,
                                                  IF t = "SPY" THEN alt ELSE S,
                                                  IF t = "XLK" THEN alt ELSE X) :
                                /\ Len(sig) >= i
                                /\ sig[i] = signal[i]

\* ------------------------------------------------------------------------
\* C3
\* ------------------------------------------------------------------------
\* C3 as stated: for every row i >= 1, strategy_daily_return[i] is
\* signal[i-1] times the anchor's overnight return into tomorrow at row i-1,
\* and exactly 0 where that product is absent.
C3_ReturnUsesPreviousSignal ==
    StrategyDone =>
        \A i \in 1..Len(common) :
            strategy_daily_return[i] =
                IF i = 1 \/ IsNaN(common[i - 1].QQQ_next_ov) THEN Num(0)
                ELSE Mul(Num(signal[i - 1]), common[i - 1].QQQ_next_ov)

\* C3 amended: for every row i >= 1, strategy_daily_return[i] is signal[i]
\* (the signal of the same row) times the anchor's overnight return into
\* tomorrow at row i-1; on the first row and wherever that overnight return
\* is absent the strategy return is exactly 0.
C3_ReturnUsesOwnSignal ==
    StrategyDone =>
        /\ Len(strategy_daily_return) = Len(common)
        /\ \A i \in 1..Len(common) :
            strategy_daily_return[i] =
                IF i = 1 \/ IsNaN(common[i - 1].QQQ_next_ov) THEN Num(0)
                ELSE IF signal[i] = 1 THEN common[i - 1].QQQ_next_ov ELSE Num(0)

\* a signalled row earns a non-zero overnight return while the row before
\* it was not signalled
C3_Witness ==
    /\ StrategyDone
    /\ \E i \in 2..Len(common) :
        /\ signal[i] = 1
        /\ signal[i - 1] = 0
        /\ strategy_daily_return[i] # Num(0)
        /\ strategy_daily_return[i] = common[i - 1].QQQ_next_ov

\* ------------------------------------------------------------------------
\* C4
\* ------------------------------------------------------------------------
\* the location of the k-th instrument: the k-th positional argument when
\* given, its default otherwise
LocationAsSpecified(k) == IF Len(argv) >= k + 1 THEN argv[k + 1] ELSE DefaultPath[Tickers[k]]

MissingLocations == {p \in {LocationAsSpecified(k) : k \in 1..3} : ~fs[p].exists}

NothingProcessed ==
    /\ \A t \in TickerSet : data[t] = <<>>
    /\ common = <<>> /\ signal = <<>> /\ strategy_daily_return = <<>>
    /\ strategy_equity = <<>>
    /\ ~stats.computed /\ ~growth.computed

\* C4: if a resolved input location does not exist, the run prints one
\* message listing every missing location and no existing one, exits with a
\* non-zero status, and loads, computes and reports nothing.
C4_MissingInputPrecheck ==
    (pc # "io" /\ MissingLocations # {}) =>
        /\ pc = "exit"
        /\ exit_status > 0
        /\ Len(stdout) = 1
        /\ stdout[1].label = "Missing file(s):"
        /\ {stdout[1].paths[j] : j \in 1..Len(stdout[1].paths)} = MissingLocations
        /\ NothingProcessed

\* one of three locations is missing, the other two exist, and two of the
\* locations were given on the command line
C4_Witness ==
    /\ pc = "exit"
    /\ Len(argv) = 3
    /\ Cardinality(MissingLocations) = 1
    /\ Len(stdout) = 1
    /\ \E k \in 1..3 : fs[LocationAsSpecified(k)].exists

\* ------------------------------------------------------------------------
\* C5
\* ------------------------------------------------------------------------
EquityDone == pc = "output" \/ Reported

\* C5: for every non-empty Common Table, strategy_equity[0] = 1 and
\* strategy_equity[k] = strategy_equity[k-1] * (1 + strategy_daily_return[k])
\* for every k >= 1.
C5_EquityReconstruction ==
    (EquityDone /\ common # <<>>) =>
        /\ Len(strategy_equity) = Len(common)
        /\ strategy_equity[1] = Num(1)
        /\ \A k \in 2..Len(common) :
            strategy_equity[k] =
                Mul(strategy_equity[k - 1], Add(Num(1), strategy_daily_return[k]))

\* the equity curve moves: some row carries a non-zero strategy return
C5_Witness ==
    /\ Reported
    /\ \E k \in 2..Len(common) :
        /\ strategy_daily_return[k] # Num(0)
        /\ strategy_equity[k] # strategy_equity[k - 1]

\* ------------------------------------------------------------------------
\* C6
\* ------------------------------------------------------------------------
\* C6: the signal is false on each of the first 19 rows of the Common Table,
\* the very first row included.
C6_WarmUp ==
    StrategyDone =>
        \A i \in 1..Len(signal) : i <= Window - 1 => signal[i] = 0

\* a table longer than the warm-up whose first row after it is signalled
C6_Witness ==
    /\ StrategyDone
    /\ Len(signal) > Window
    /\ signal[Window + 1] = 1
    /\ \A i \in 1..Window : signal[i] = 0

\* ------------------------------------------------------------------------
\* C7
\* ------------------------------------------------------------------------
AnchorDates == {InputRows("QQQ")[k].Date : k \in 1..Len(InputRows("QQQ"))}

\* C7: when the Loader and Aligner raise no error, the Common Table has
\* strictly increasing dates, its date set is the set of anchor dates on or
\* after the cut-off, and an input with a duplicate date is a load error.
C7_LeftPreservingAlignment ==
    (StrategyDone \/ pc = "strategy") =>
        /\ \A i \in 2..Len(common) : common[i - 1].Date < common[i].Date
        /\ {common[i].Date : i \in 1..Len(common)} = {d \in AnchorDates : d >= Cutoff}
        /\ \A t \in TickerSet : ~DuplicateDates(InputRows(t))

\* ------------------------------------------------------------------------
\* C8
\* ------------------------------------------------------------------------
\* C8: when every strategy return is identical, or the series has a single
\* row, the Sharpe ratio is exactly 0 and not NaN.
C8_DegenerateSharpe ==
    (/\ stats.computed
     /\ Len(strategy_daily_return) >= 1
     /\ \A i, j \in 1..Len(strategy_daily_return) :
            strategy_daily_return[i] = strategy_daily_return[j]) =>
        SurdIsZero(stats.sharpe_ratio)

\* ------------------------------------------------------------------------
\* C9
\* ------------------------------------------------------------------------
\* C9: when no row remains after the cut-off filter and the join, the run
\* ends with a distinct empty-sample error raised right after alignment,
\* before any statistic is computed, and prints no report.
C9_EmptySample ==
    (pc = "exit" /\ missing = <<>> /\ common = <<>>) =>
        /\ error = "EmptySampleError"
        /\ ~stats.computed
        /\ stdout = <<>>

\* ------------------------------------------------------------------------
\* C10
\* ------------------------------------------------------------------------
InputDays ==
    LET ds == UNION {{InputRows(t)[k].Date : k \in 1..Len(InputRows(t))} : t \in TickerSet}
    IN  {d \in Cutoff..(Cutoff + Window + MaxTail + 2) : \E e \in ds : d <= e + 1}

\* files that differ from rows in the bar of one day: the bar removed, its
\* open changed, or a bar inserted where there is none
Edits(rows, day) ==
    IF HasBar(rows, day)
    THEN {SelectSeq(rows, LAMBDA r : r.Date # day), Repriced(rows, day, "open", 3)}
    ELSE {<<Bar(day, 2, 1)>> \o rows}

\* C10: for every anchor row i with date d, signal[i],
\* strategy_daily_return[i] and strategy_equity[i] are unchanged by a change
\* to, an insertion of or a removal of a bar dated strictly after d in any
\* instrument (stated for inputs without duplicate dates and edits of the
\* bar of one day).
C10_FutureEditsInvisible ==
    (pc = "output" /\ NoDuplicateDates) =>
        LET Q == load_ticker(InputRows("QQQ"))
            S == load_ticker(InputRows("SPY"))
            X == load_ticker(InputRows("XLK"))
        IN  \A t \in TickerSet : \A day \in InputDays : \A rows \in Edits(InputRows(t), day) :
                LET alt == load_ticker(rows)
                IN  \E r \in RunsFrom(IF t = "QQQ" THEN alt ELSE Q,
                                      IF t = "SPY" THEN alt ELSE S,
                                      IF t = "XLK" THEN alt ELSE X) :
                        \A i \in 1..Len(common) :
                            common[i].Date < day =>
                                /\ Len(r.signal) >= i
                                /\ r.signal[i] = signal[i]
                                /\ r.strategy_daily_return[i] = strategy_daily_return[i]
                                /\ r.strategy_equity[i] = strategy_equity[i]

====
